---- MODULE Spec2Model ----
(***************************************************************************)
(* A model of the json-node crate: the JsonNode tree, the JsonPropertyMap  *)
(* ordered association list, the string-splitting parser, the serializer   *)
(* and the depth-first iterator.                                           *)
(*                                                                         *)
(* Text is a sequence of one-character strings.  A Rust panic (slice out   *)
(* of range, unwrap of None, index out of bounds) is the outcome "Panic".  *)
(***************************************************************************)
EXTENDS Integers, Sequences, FiniteSets, TLC

VARIABLES
    map,        \* JsonPropertyMap under test: the Vec<(String, JsonNode)>
    order,      \* history: the surviving entries in the order of their successful add
    last,       \* outcome of the last JsonPropertyMap operation
    tree,       \* the JsonNode a traversal or a serialization works on
    iter,       \* the Iter struct of a traversal (Option: <<>> before into_iter)
    yielded,    \* the nodes next() has returned so far
    status,     \* "idle" | "run" | "done" (next returned None) | "panic"
    calls,      \* number of next() calls made on the traversal
    text,       \* the text handed to JsonNode::parse
    result,     \* outcome of JsonNode::parse
    pc,         \* position of the parsing / round-trip / serializing / inspecting client
    inner,      \* the recursive parse_node calls the last parse made for its
                \* elements or member values: <<span, parent_node, outcome>>
    output,     \* the String a to_json_string call returned
    seen,       \* what the predicates and accessors of JsonNode returned for tree
    pieces      \* the strings the last parse split the interior of its array or
                \* object text into

vars == <<map, order, last, tree, iter, yielded, status, calls, text, result, pc,
          inner, output, seen, pieces>>

-----------------------------------------------------------------------------
(* Bounds of the model.                                                    *)

\* Largest number of lexemes of a text handed to parse.
MaxLexemes == 5
\* Number of distinct property names the JsonPropertyMap client uses; the
\* map under test never grows past one entry more than this.
MaxEntries == 3
\* Largest number of nodes of a tree that is traversed.
MaxNodes == 5
\* Largest number of nodes of a tree that is serialized and parsed back.
MaxRoundTripNodes == 4
\* next() calls beyond the number of leaves that the traversal client makes.
MaxExtraCalls == 2
\* Largest number of pairs a JsonPropertyMap is built from.
MaxPairs == 3
\* Largest number of nodes of a tree that is serialized.
MaxSerializedNodes == 4
\* Largest number of lexemes of a text with whitespace of several kinds.
MaxSpacedLexemes == 4
\* Largest number of nodes of a tree whose predicates and accessors are called.
MaxInspectedNodes == 3
\* Largest number of lexemes of the interior of an array or object that is split.
MaxSplitLexemes == 4
\* Largest number of nodes of a tree written as text with whitespace.
MaxPaddedNodes == 3
\* Largest number of characters of a string that is serialized and parsed back.
MaxStringChars == 3
\* Largest number of characters between the quotes of a string element.
MaxQuotedChars == 3
\* Largest number of lexemes between the braces of an object text.
MaxMemberLexemes == 5
\* Largest number of lexemes of the value of an object member.
MaxValueLexemes == 5
\* Largest number of lexemes of a scalar text handed to parse.
MaxScalarLexemes == 3

-----------------------------------------------------------------------------
(* Option, Result and panic outcomes.                                      *)

NoneV == <<>>
SomeV(x) == <<x>>

Ok(node) == <<"Ok", node>>
Err(e) == <<"Err", e>>
Panic == <<"Panic">>
SomeNode(node) == <<"Some", node>>
NoNode == <<"None">>

IsPanic(r) == r[1] = "Panic"

-----------------------------------------------------------------------------
(* JsonNode values.  Float(sign, m, k) is the decimal sign * m / 10^k with *)
(* k minimal, which is what f64 holds for the short decimals of the model. *)

Object(properties) == <<"Object", properties>>
Array(nodes) == <<"Array", nodes>>
String(chars) == <<"String", chars>>
Integer(n) == <<"Integer", n>>
Float(sign, m, k) == <<"Float", sign, m, k>>
Boolean(b) == <<"Boolean", b>>
Null == <<"Null">>

is_object(node) == node[1] = "Object"
is_array(node) == node[1] = "Array"
IsScalar(node) == ~is_object(node) /\ ~is_array(node)

is_string(node) == node[1] = "String"
is_integer(node) == node[1] = "Integer"
is_float(node) == node[1] = "Float"

\* is_bool as a plausible slip would have it: the arm of the neighbouring
\* predicate copied without changing the variant.
is_bool_copied(node) == node[1] = "Float"

is_bool(node) == node[1] = "Boolean"
is_null(node) == node[1] = "Null"

\* The accessors: Some(payload) on the matching variant, None otherwise.  A
\* mutable accessor returns a reference to the same payload.
as_object(node) == IF node[1] = "Object" THEN SomeV(node[2]) ELSE NoneV
as_array(node) == IF node[1] = "Array" THEN SomeV(node[2]) ELSE NoneV
as_object_mut(node) == IF node[1] = "Object" THEN SomeV(node[2]) ELSE NoneV
as_array_mut(node) == IF node[1] = "Array" THEN SomeV(node[2]) ELSE NoneV
as_string(node) == IF node[1] = "String" THEN SomeV(node[2]) ELSE NoneV
as_integer(node) == IF node[1] = "Integer" THEN SomeV(node[2]) ELSE NoneV
as_float(node) ==
    IF node[1] = "Float" THEN SomeV(<<node[2], node[3], node[4]>>) ELSE NoneV
as_boolean(node) == IF node[1] = "Boolean" THEN SomeV(node[2]) ELSE NoneV
as_string_mut(node) == IF node[1] = "String" THEN SomeV(node[2]) ELSE NoneV
as_integer_mut(node) == IF node[1] = "Integer" THEN SomeV(node[2]) ELSE NoneV
as_float_mut(node) ==
    IF node[1] = "Float" THEN SomeV(<<node[2], node[3], node[4]>>) ELSE NoneV
as_boolean_mut(node) == IF node[1] = "Boolean" THEN SomeV(node[2]) ELSE NoneV

\* #[derive(PartialEq)]: structural equality, with f64's -0.0 == 0.0.
RECURSIVE NodeEq(_, _)
NodeEq(a, b) ==
    IF a[1] # b[1] THEN FALSE
    ELSE IF a[1] = "Float" THEN (a[3] = 0 /\ b[3] = 0) \/ a = b
    ELSE IF a[1] = "Array" THEN
        /\ Len(a[2]) = Len(b[2])
        /\ \A i \in 1..Len(a[2]) : NodeEq(a[2][i], b[2][i])
    ELSE IF a[1] = "Object" THEN
        /\ Len(a[2]) = Len(b[2])
        /\ \A i \in 1..Len(a[2]) :
              /\ a[2][i][1] = b[2][i][1]
              /\ NodeEq(a[2][i][2], b[2][i][2])
    ELSE a = b

-----------------------------------------------------------------------------
(* Text helpers: str::trim, starts_with, ends_with, integer formatting.    *)

WhiteSpace == {" ", "\t", "\n", "\r"}
Digits == <<"0", "1", "2", "3", "4", "5", "6", "7", "8", "9">>
IsDigit(c) == \E i \in 1..Len(Digits) : Digits[i] = c
DigitVal(c) == (CHOOSE i \in 1..Len(Digits) : Digits[i] = c) - 1

RECURSIVE trim_start(_)
trim_start(s) ==
    IF s # <<>> /\ Head(s) \in WhiteSpace THEN trim_start(Tail(s)) ELSE s

RECURSIVE trim_end(_)
trim_end(s) ==
    IF s # <<>> /\ s[Len(s)] \in WhiteSpace
    THEN trim_end(SubSeq(s, 1, Len(s) - 1))
    ELSE s

\* trim as a plausible slip would have it: only leading whitespace removed.
trim_leading(s) == trim_start(s)

trim(s) == trim_end(trim_start(s))

starts_with(s, c) == s # <<>> /\ s[1] = c
ends_with(s, c) == s # <<>> /\ s[Len(s)] = c

\* s.replace(c, ""): every occurrence of the character removed.
RECURSIVE remove_char(_, _)
remove_char(s, c) ==
    IF s = <<>> THEN <<>>
    ELSE IF Head(s) = c THEN remove_char(Tail(s), c)
    ELSE <<Head(s)>> \o remove_char(Tail(s), c)

\* Decimal digits of a natural number.
RECURSIVE NatToText(_)
NatToText(n) ==
    IF n < 10 THEN <<Digits[n + 1]>>
    ELSE NatToText(n \div 10) \o <<Digits[(n % 10) + 1]>>

\* Value of a non-empty digit string.
RECURSIVE TextToNat(_)
TextToNat(s) ==
    IF Len(s) = 1 THEN DigitVal(s[1])
    ELSE 10 * TextToNat(SubSeq(s, 1, Len(s) - 1)) + DigitVal(s[Len(s)])

AllDigits(s) == \A i \in 1..Len(s) : IsDigit(s[i])

RECURSIVE Pow10(_)
Pow10(k) == IF k = 0 THEN 1 ELSE 10 * Pow10(k - 1)

\* surround_with(left, right) of string_utils
surround_with(s, left, right) == left \o s \o right

-----------------------------------------------------------------------------
(* Number formatting and parsing of the standard library, for the decimal  *)
(* forms a text of the model can hold: an optional sign, digits and at     *)
(* most one point.  Exponents and the words inf / nan need letters that    *)
(* no number lexeme of the model supplies.  The texts are short, so no     *)
(* digit string leaves the range of i64.                                   *)

\* i64::to_string
i64_to_string(n) ==
    IF n < 0 THEN <<"-">> \o NatToText(0 - n) ELSE NatToText(n)

\* Digits of n padded with leading zeros to width k.
RECURSIVE ZeroPad(_, _)
ZeroPad(s, k) == IF Len(s) >= k THEN s ELSE ZeroPad(<<"0">> \o s, k)

\* f64::to_string (Display): never an exponent, no ".0" on a whole number.
f64_to_string(sign, m, k) ==
    LET whole == NatToText(m \div Pow10(k))
        frac == IF k = 0 THEN <<>>
                ELSE <<".">> \o ZeroPad(NatToText(m % Pow10(k)), k)
    IN (IF sign < 0 THEN <<"-">> ELSE <<>>) \o whole \o frac

HasSign(s) == s # <<>> /\ s[1] \in {"+", "-"}
Unsigned(s) == IF HasSign(s) THEN Tail(s) ELSE s
SignOf(s) == IF s # <<>> /\ s[1] = "-" THEN 0 - 1 ELSE 1

\* str::parse::<i64>: NoneV on a parse error, SomeV(value) otherwise.
parse_i64(s) ==
    LET body == Unsigned(s)
    IN IF body = <<>> \/ ~AllDigits(body) THEN NoneV
       ELSE SomeV(SignOf(s) * TextToNat(body))

PointAt(s) == CHOOSE i \in 1..Len(s) : s[i] = "."

\* Drops the trailing zeros of a fraction: <<m, k>> with k minimal.
RECURSIVE Normalize(_, _)
Normalize(m, k) ==
    IF k > 0 /\ m % 10 = 0 THEN Normalize(m \div 10, k - 1) ELSE <<m, k>>

\* str::parse::<f64>: NoneV on a parse error, SomeV(<<sign, m, k>>) otherwise.
parse_f64(s) ==
    LET body == Unsigned(s)
        hasPoint == \E i \in 1..Len(body) : body[i] = "."
        whole == IF hasPoint THEN SubSeq(body, 1, PointAt(body) - 1) ELSE body
        frac == IF hasPoint THEN SubSeq(body, PointAt(body) + 1, Len(body)) ELSE <<>>
        digits == whole \o frac
    IN IF digits = <<>> \/ ~AllDigits(digits) THEN NoneV
       ELSE LET mk == Normalize(TextToNat(digits), Len(frac))
            IN SomeV(<<SignOf(s), mk[1], mk[2]>>)

-----------------------------------------------------------------------------
(* Serialization: JsonNode::to_json_string, JsonPropertyMap::to_json_string *)

\* String::pop: removes the last character, if any.
pop(s) == IF s = <<>> THEN s ELSE SubSeq(s, 1, Len(s) - 1)

\* Vec<String>::join(",")
RECURSIVE join(_, _)
join(parts, sep) ==
    IF parts = <<>> THEN <<>>
    ELSE IF Len(parts) = 1 THEN parts[1]
    ELSE parts[1] \o sep \o join(Tail(parts), sep)

RECURSIVE to_json_string(_)
RECURSIVE map_to_json_string(_)
RECURSIVE PushEntries(_, _)

\* The loop of JsonPropertyMap::to_json_string: result.push_str("\"key\":value,")
PushEntries(acc, entries) ==
    IF entries = <<>> THEN acc
    ELSE PushEntries(
            acc \o <<"\"">> \o entries[1][1] \o <<"\"", ":">>
                \o to_json_string(entries[1][2]) \o <<",">>,
            Tail(entries))

map_to_json_string(entries) ==
    pop(PushEntries(<<"{">>, entries)) \o <<"}">>

to_json_string(node) ==
    CASE node[1] = "String" -> surround_with(node[2], <<"\"">>, <<"\"">>)
      [] node[1] = "Integer" -> i64_to_string(node[2])
      [] node[1] = "Float" -> f64_to_string(node[2], node[3], node[4])
      [] node[1] = "Boolean" ->
            IF node[2] THEN <<"t", "r", "u", "e">> ELSE <<"f", "a", "l", "s", "e">>
      [] node[1] = "Null" -> <<"n", "u", "l", "l">>
      [] node[1] = "Object" -> map_to_json_string(node[2])
      [] node[1] = "Array" ->
            surround_with(
                join([i \in 1..Len(node[2]) |-> to_json_string(node[2][i])], <<",">>),
                <<"[">>, <<"]">>)

RECURSIVE PushEntriesSpaced(_, _)

\* The loop of JsonPropertyDictionary::to_json_string:
\* result.push_str("\"key\": value,")
PushEntriesSpaced(acc, entries) ==
    IF entries = <<>> THEN acc
    ELSE PushEntriesSpaced(
            acc \o <<"\"">> \o entries[1][1] \o <<"\"", ":", " ">>
                \o to_json_string(entries[1][2]) \o <<",">>,
            Tail(entries))

\* JsonPropertyDictionary::to_json_string, the twin of
\* JsonPropertyMap::to_json_string in the container the parser builds.
dictionary_to_json_string(entries) ==
    pop(PushEntriesSpaced(<<"{">>, entries)) \o <<"}">>

-----------------------------------------------------------------------------
(* Tokens (parsing/tokens.rs).                                             *)

DOUBLE_QUOTE == "\""
COLON == ":"
COMMA == ","
LEFT_BRACE == "{"
RIGHT_BRACE == "}"
LEFT_BRACKET == "["
RIGHT_BRACKET == "]"
NULL == <<"n", "u", "l", "l">>
TRUE_TOKEN == <<"t", "r", "u", "e">>
FALSE_TOKEN == <<"f", "a", "l", "s", "e">>

\* The ASCII letters of the three keywords, upper and lower case.
UpperLetters == <<"A", "E", "F", "L", "N", "R", "S", "T", "U">>
LowerLetters == <<"a", "e", "f", "l", "n", "r", "s", "t", "u">>
to_ascii_lowercase(c) ==
    IF \E i \in 1..Len(UpperLetters) : UpperLetters[i] = c
    THEN LowerLetters[CHOOSE i \in 1..Len(UpperLetters) : UpperLetters[i] = c]
    ELSE c

eq_ignore_ascii_case(s, t) ==
    /\ Len(s) = Len(t)
    /\ \A i \in 1..Len(s) : to_ascii_lowercase(s[i]) = to_ascii_lowercase(t[i])

-----------------------------------------------------------------------------
(* Errors (errors/json_node_error.rs, as the parser constructs them).      *)

EmptyJsonNode(parent_node) == <<"EmptyJsonNode", parent_node>>
CouldntParseNode(json) == <<"CouldntParseNode", json>>
MultiplePropertiesWithSameKey(key) == <<"MultiplePropertiesWithSameKey", key>>
KeyNotFound(key) == <<"KeyNotFound", key>>

-----------------------------------------------------------------------------
(* The parser (parsing/json_parser.rs).  The scalar parsers return         *)
(* SomeNode / NoNode / Panic; parse_node returns Ok / Err / Panic.         *)

\* parse_string as a plausible slip would have it: the text between the quotes
\* is trimmed as well.
parse_string_trimmed(value) ==
    LET trimmed == trim(value)
    IN IF trimmed = <<>> THEN NoNode
       ELSE IF starts_with(trimmed, DOUBLE_QUOTE) /\ ends_with(trimmed, DOUBLE_QUOTE)
       THEN IF Len(trimmed) < 2 THEN Panic
            ELSE SomeNode(String(trim(SubSeq(trimmed, 2, Len(trimmed) - 1))))
       ELSE NoNode

parse_string(value) ==
    LET trimmed == trim(value)
    IN IF trimmed = <<>> THEN NoNode
       ELSE IF starts_with(trimmed, DOUBLE_QUOTE) /\ ends_with(trimmed, DOUBLE_QUOTE)
       THEN \* trim[1..trim.len() - 1]: begin 1 > end 0 on a lone quote
            IF Len(trimmed) < 2 THEN Panic
            ELSE SomeNode(String(SubSeq(trimmed, 2, Len(trimmed) - 1)))
       ELSE NoNode

parse_integer(value) ==
    LET trimmed == trim(value)
    IN IF trimmed = <<>> THEN NoNode
       ELSE IF parse_i64(trimmed) # NoneV
       THEN SomeNode(Integer(parse_i64(trimmed)[1]))
       ELSE NoNode

parse_float(value) ==
    LET trimmed == trim(value)
        num == parse_f64(trimmed)
    IN IF trimmed = <<>> THEN NoNode
       ELSE IF num # NoneV
       THEN SomeNode(Float(num[1][1], num[1][2], num[1][3]))
       ELSE NoNode

parse_boolean(value) ==
    LET trimmed == trim(value)
    IN IF trimmed = <<>> THEN NoNode
       ELSE IF eq_ignore_ascii_case(trimmed, TRUE_TOKEN) THEN SomeNode(Boolean(TRUE))
       ELSE IF eq_ignore_ascii_case(trimmed, FALSE_TOKEN) THEN SomeNode(Boolean(FALSE))
       ELSE NoNode

parse_null(value) ==
    LET trimmed == trim(value)
    IN IF trimmed = <<>> THEN NoNode
       ELSE IF eq_ignore_ascii_case(trimmed, NULL) THEN SomeNode(Null)
       ELSE NoNode

parse_value(json) ==
    IF parse_string(json) # NoNode THEN parse_string(json)
    ELSE IF parse_integer(json) # NoNode THEN parse_integer(json)
    ELSE IF parse_float(json) # NoNode THEN parse_float(json)
    ELSE IF parse_boolean(json) # NoNode THEN parse_boolean(json)
    ELSE IF parse_null(json) # NoNode THEN parse_null(json)
    ELSE NoNode

\* The character loop shared by parse_array and parse_object: splits the
\* interior at the commas seen while level = 0.  Returns the pushed strings.
RECURSIVE split_loop_flat(_, _, _, _)
\* The loop as a plausible slip would have it: the level is counted but the
\* comma test does not look at it.
split_loop_flat(chars, elements, element, level) ==
    IF chars = <<>> THEN Append(elements, trim(element))
    ELSE LET char == Head(chars)
         IN IF char = LEFT_BRACE \/ char = LEFT_BRACKET
            THEN split_loop_flat(Tail(chars), elements, Append(element, char), level + 1)
            ELSE IF char = RIGHT_BRACE \/ char = RIGHT_BRACKET
            THEN split_loop_flat(Tail(chars), elements, Append(element, char), level - 1)
            ELSE IF char = COMMA
            THEN split_loop_flat(Tail(chars), Append(elements, trim(element)), <<>>, level)
            ELSE split_loop_flat(Tail(chars), elements, Append(element, char), level)

\* The loop as a plausible slip would have it: a comma between two double
\* quotes is kept in the element.
RECURSIVE split_loop_quoted(_, _, _, _)
split_loop_quoted(chars, elements, element, level) ==
    IF chars = <<>> THEN Append(elements, trim(element))
    ELSE LET char == Head(chars)
             quotes == Cardinality({i \in 1..Len(element) : element[i] = DOUBLE_QUOTE})
         IN IF char = LEFT_BRACE \/ char = LEFT_BRACKET
            THEN split_loop_quoted(Tail(chars), elements, Append(element, char), level + 1)
            ELSE IF char = RIGHT_BRACE \/ char = RIGHT_BRACKET
            THEN split_loop_quoted(Tail(chars), elements, Append(element, char), level - 1)
            ELSE IF char = COMMA /\ level = 0 /\ quotes % 2 = 0
            THEN split_loop_quoted(Tail(chars), Append(elements, trim(element)), <<>>, level)
            ELSE split_loop_quoted(Tail(chars), elements, Append(element, char), level)

RECURSIVE split_loop(_, _, _, _)
split_loop(chars, elements, element, level) ==
    IF chars = <<>> THEN Append(elements, trim(element))
    ELSE LET char == Head(chars)
         IN IF char = LEFT_BRACE \/ char = LEFT_BRACKET
            THEN split_loop(Tail(chars), elements, Append(element, char), level + 1)
            ELSE IF char = RIGHT_BRACE \/ char = RIGHT_BRACKET
            THEN split_loop(Tail(chars), elements, Append(element, char), level - 1)
            ELSE IF char = COMMA /\ level = 0
            THEN split_loop(Tail(chars), Append(elements, trim(element)), <<>>, level)
            ELSE split_loop(Tail(chars), elements, Append(element, char), level)

\* is_blank as a plausible slip would have it: the test negated.
is_blank_inverted(interior) ==
    remove_char(remove_char(interior, " "), "\t") # <<>>

\* no_brackets.replace(" ", "").replace("\t", "").is_empty()
is_blank(interior) == remove_char(remove_char(interior, " "), "\t") = <<>>

\* split_once as a plausible slip would have it: str::rsplit_once, which
\* splits at the last colon.
rsplit_once(s, c) ==
    IF \E i \in 1..Len(s) : s[i] = c
    THEN LET at == CHOOSE i \in 1..Len(s) :
                      s[i] = c /\ \A j \in (i + 1)..Len(s) : s[j] # c
         IN SomeV(<<SubSeq(s, 1, at - 1), SubSeq(s, at + 1, Len(s))>>)
    ELSE NoneV

\* str::split_once(COLON): NoneV, or SomeV(<<before, after>>) at the first colon.
split_once(s, c) ==
    IF \E i \in 1..Len(s) : s[i] = c
    THEN LET at == CHOOSE i \in 1..Len(s) :
                      s[i] = c /\ \A j \in 1..(i - 1) : s[j] # c
         IN SomeV(<<SubSeq(s, 1, at - 1), SubSeq(s, at + 1, Len(s))>>)
    ELSE NoneV

RECURSIVE parse_node(_, _)
RECURSIVE parse_array(_)
RECURSIVE parse_object(_)

\* JsonPropertyDictionary::from_iter: the pairs collected as they come.
from_iter(pairs) == pairs

\* One member of an object: Panic, or <<key, Ok(node) | Err(e)>>.
parse_member(property, object) ==
    LET split == split_once(trim(property), COLON)
    IN IF split = NoneV THEN Panic                 \* split_once(..).unwrap()
       ELSE LET key == split[1][1]
                value == split[1][2]
            IN IF Len(key) < 2 THEN Panic          \* key[1..key.len() - 1]
               ELSE LET parsed == parse_node(value, SomeV(object))
                    IN IF IsPanic(parsed) THEN Panic
                       ELSE <<SubSeq(key, 2, Len(key) - 1), parsed>>

parse_object(object) ==
    LET trimmed == trim(object)
    IN IF trimmed = <<>> THEN NoNode
       ELSE IF starts_with(trimmed, LEFT_BRACE) /\ ends_with(trimmed, RIGHT_BRACE)
       THEN LET no_braces == trim(SubSeq(trimmed, 2, Len(trimmed) - 1))
            IN IF is_blank(no_braces) THEN SomeNode(Object(<<>>))
               ELSE LET properties == split_loop(no_braces, <<>>, <<>>, 0)
                        kvps == [i \in 1..Len(properties) |->
                                    parse_member(properties[i], object)]
                    IN IF \E i \in 1..Len(kvps) : IsPanic(kvps[i]) THEN Panic
                       \* p.clone().unwrap() on a member whose value did not parse
                       ELSE IF \E i \in 1..Len(kvps) : kvps[i][2][1] = "Err" THEN Panic
                       ELSE SomeNode(Object(from_iter(
                                [i \in 1..Len(kvps) |-> <<kvps[i][1], kvps[i][2][2]>>])))
       ELSE NoNode

parse_array(array) ==
    LET trimmed == trim(array)
    IN IF trimmed = <<>> THEN NoNode
       ELSE IF starts_with(trimmed, LEFT_BRACKET) /\ ends_with(trimmed, RIGHT_BRACKET)
       THEN LET no_brackets == trim(SubSeq(trimmed, 2, Len(trimmed) - 1))
            IN IF is_blank(no_brackets) THEN SomeNode(Array(<<>>))
               ELSE LET strings == split_loop(no_brackets, <<>>, <<>>, 0)
                        elements == [i \in 1..Len(strings) |->
                                        parse_node(trim(strings[i]), SomeV(array))]
                    IN IF \E i \in 1..Len(elements) : IsPanic(elements[i]) THEN Panic
                       ELSE IF \E i \in 1..Len(elements) : elements[i][1] = "Err"
                       THEN NoNode
                       ELSE SomeNode(Array([i \in 1..Len(elements) |-> elements[i][2]]))
       ELSE NoNode

\* parse_node as a plausible slip would have it: the empty-input error built
\* without the parent text.
parse_node_without_parent(json_node_as_json_string, parent_node) ==
    LET trimmed == trim(json_node_as_json_string)
    IN IF trimmed = <<>> THEN Err(EmptyJsonNode(NoneV))
       ELSE LET value == parse_value(json_node_as_json_string)
            IN IF IsPanic(value) THEN Panic
               ELSE IF value # NoNode THEN Ok(value[2])
               ELSE LET arr == parse_array(json_node_as_json_string)
                    IN IF IsPanic(arr) THEN Panic
                       ELSE IF arr # NoNode THEN Ok(arr[2])
                       ELSE LET obj == parse_object(json_node_as_json_string)
                            IN IF IsPanic(obj) THEN Panic
                               ELSE IF obj # NoNode THEN Ok(obj[2])
                               ELSE Err(CouldntParseNode(json_node_as_json_string))

parse_node(json_node_as_json_string, parent_node) ==
    LET trimmed == trim(json_node_as_json_string)
    IN IF trimmed = <<>> THEN Err(EmptyJsonNode(parent_node))
       ELSE LET value == parse_value(json_node_as_json_string)
            IN IF IsPanic(value) THEN Panic
               ELSE IF value # NoNode THEN Ok(value[2])
               ELSE LET arr == parse_array(json_node_as_json_string)
                    IN IF IsPanic(arr) THEN Panic
                       ELSE IF arr # NoNode THEN Ok(arr[2])
                       ELSE LET obj == parse_object(json_node_as_json_string)
                            IN IF IsPanic(obj) THEN Panic
                               ELSE IF obj # NoNode THEN Ok(obj[2])
                               ELSE Err(CouldntParseNode(json_node_as_json_string))

\* JsonNode::parse
parse(json) == parse_node(json, NoneV)

\* The parse_node calls parse_array makes for its elements, in the order they
\* are made, each as <<span, parent_node, outcome>>; a call that panics is
\* the last.
RECURSIVE ElementCalls(_, _)
ElementCalls(strings, array) ==
    IF strings = <<>> THEN <<>>
    ELSE LET value == trim(strings[1])
             call == <<value, SomeV(array), parse_node(value, SomeV(array))>>
         IN IF IsPanic(call[3]) THEN <<call>>
            ELSE <<call>> \o ElementCalls(Tail(strings), array)

\* The parse_node calls parse_object makes for its member values; a member
\* without a colon or with a name part shorter than two characters panics
\* before its call is made.
RECURSIVE MemberCalls(_, _)
MemberCalls(properties, object) ==
    IF properties = <<>> THEN <<>>
    ELSE LET split == split_once(trim(properties[1]), COLON)
         IN IF split = NoneV \/ Len(split[1][1]) < 2 THEN <<>>
            ELSE LET value == split[1][2]
                     call == <<value, SomeV(object), parse_node(value, SomeV(object))>>
                 IN IF IsPanic(call[3]) THEN <<call>>
                    ELSE <<call>> \o MemberCalls(Tail(properties), object)

\* The strings parse_array or parse_object pushes for json: the elements or
\* properties its loop splits the interior into; none when json is blank, a
\* scalar, not delimited by brackets or braces, or has a blank interior.
SplitOf(json) ==
    LET trimmed == trim(json)
        interior == trim(SubSeq(trimmed, 2, Len(trimmed) - 1))
    IN IF trimmed = <<>> \/ parse_value(json) # NoNode THEN <<>>
       ELSE IF \/ starts_with(trimmed, LEFT_BRACKET) /\ ends_with(trimmed, RIGHT_BRACKET)
               \/ starts_with(trimmed, LEFT_BRACE) /\ ends_with(trimmed, RIGHT_BRACE)
       THEN IF is_blank(interior) THEN <<>> ELSE split_loop(interior, <<>>, <<>>, 0)
       ELSE <<>>

\* The recursive parse_node calls made directly by parse_node(json, _).
RecursiveCalls(json) ==
    LET trimmed == trim(json)
        interior == trim(SubSeq(trimmed, 2, Len(trimmed) - 1))
    IN IF trimmed = <<>> \/ parse_value(json) # NoNode THEN <<>>
       ELSE IF starts_with(trimmed, LEFT_BRACKET) /\ ends_with(trimmed, RIGHT_BRACKET)
       THEN IF is_blank(interior) THEN <<>>
            ELSE ElementCalls(split_loop(interior, <<>>, <<>>, 0), json)
       ELSE IF starts_with(trimmed, LEFT_BRACE) /\ ends_with(trimmed, RIGHT_BRACE)
       THEN IF is_blank(interior) THEN <<>>
            ELSE MemberCalls(split_loop(interior, <<>>, <<>>, 0), json)
       ELSE <<>>

-----------------------------------------------------------------------------
(* JsonPropertyMap (models/json_property_map.rs): a Vec of (name, node).   *)

new == <<>>

contains_property(m, property_name) ==
    \E i \in 1..Len(m) : m[i][1] = property_name

\* Option<&JsonNode>: the first entry with the name.
get(m, property_name) ==
    IF contains_property(m, property_name)
    THEN SomeV(m[CHOOSE i \in 1..Len(m) :
                    m[i][1] = property_name
                    /\ \A j \in 1..(i - 1) : m[j][1] # property_name][2])
    ELSE NoneV

\* add as a plausible slip would have it: the existing entry is overwritten.
add_overwriting(m, property_name, json_node) ==
    IF contains_property(m, property_name)
    THEN [i \in 1..Len(m) |->
            IF m[i][1] = property_name THEN <<property_name, json_node>> ELSE m[i]]
    ELSE Append(m, <<property_name, json_node>>)

\* add as a plausible slip would have it: no contains_property check.
add_unchecked(m, property_name, json_node) ==
    Append(m, <<property_name, json_node>>)

add(m, property_name, json_node) ==
    IF contains_property(m, property_name) THEN m
    ELSE Append(m, <<property_name, json_node>>)

\* Vec::remove(i): the elements after i shift left.
vec_remove(m, i) == SubSeq(m, 1, i - 1) \o SubSeq(m, i + 1, Len(m))

\* remove as a plausible slip would have it: without the count of the entries
\* that share the name, so the first of them is removed.
remove_first_match(m, property_name) ==
    IF contains_property(m, property_name)
    THEN LET i == CHOOSE j \in 1..Len(m) :
                    /\ m[j][1] = property_name
                    /\ \A k \in 1..(j - 1) : m[k][1] # property_name
         IN <<vec_remove(m, i), Ok(m[i][2])>>
    ELSE <<m, Err(KeyNotFound(property_name))>>

\* remove as a plausible slip would have it: the node is cloned out of the
\* entry and the entry stays.
remove_keeping(m, property_name) ==
    IF Cardinality({i \in 1..Len(m) : m[i][1] = property_name}) > 1
    THEN <<m, Err(MultiplePropertiesWithSameKey(property_name))>>
    ELSE IF contains_property(m, property_name)
    THEN LET i == CHOOSE j \in 1..Len(m) : m[j][1] = property_name
         IN <<m, Ok(m[i][2])>>
    ELSE <<m, Err(KeyNotFound(property_name))>>

\* remove as a plausible slip would have it: Vec::swap_remove, which moves the
\* last entry into the hole.
remove_swapping(m, property_name) ==
    IF Cardinality({i \in 1..Len(m) : m[i][1] = property_name}) > 1
    THEN <<m, Err(MultiplePropertiesWithSameKey(property_name))>>
    ELSE IF contains_property(m, property_name)
    THEN LET i == CHOOSE j \in 1..Len(m) : m[j][1] = property_name
         IN <<IF i = Len(m) THEN SubSeq(m, 1, Len(m) - 1)
              ELSE [j \in 1..(Len(m) - 1) |-> IF j = i THEN m[Len(m)] ELSE m[j]],
              Ok(m[i][2])>>
    ELSE <<m, Err(KeyNotFound(property_name))>>

\* remove as a plausible slip would have it: count != 1 instead of count > 1.
remove_miscounting(m, property_name) ==
    IF Cardinality({i \in 1..Len(m) : m[i][1] = property_name}) # 1
    THEN <<m, Err(MultiplePropertiesWithSameKey(property_name))>>
    ELSE LET i == CHOOSE j \in 1..Len(m) : m[j][1] = property_name
         IN <<vec_remove(m, i), Ok(m[i][2])>>

\* From<Vec<(String, JsonNode)>>, From<[(String, JsonNode); COUNT]> and
\* FromIterator: the pairs become the entries as they are, repeated names
\* included.
from(value) == value

\* <<the map afterwards, the returned Result>>
remove(m, property_name) ==
    IF Cardinality({i \in 1..Len(m) : m[i][1] = property_name}) > 1
    THEN <<m, Err(MultiplePropertiesWithSameKey(property_name))>>
    ELSE IF contains_property(m, property_name)
    THEN LET i == CHOOSE j \in 1..Len(m) : m[j][1] = property_name
         IN <<vec_remove(m, i), Ok(m[i][2])>>
    ELSE <<m, Err(KeyNotFound(property_name))>>

clear(m) == <<>>

property_names(m) == [i \in 1..Len(m) |-> m[i][1]]
nodes(m) == [i \in 1..Len(m) |-> m[i][2]]
len(m) == Len(m)
is_empty(m) == len(m) = 0

-----------------------------------------------------------------------------
(* The depth-first iterator (models/json_node.rs, Iter).  An Iter is the   *)
(* record of the struct's four fields; child is an Option of an Iter.      *)
(* next returns <<the Iter afterwards, SomeNode(n) | NoNode | Panic>>.     *)

into_iter(node) ==
    [node |-> SomeV(node), array_index |-> NoneV, object_index |-> NoneV,
     child |-> NoneV]

\* next as a plausible slip would have it: the held node is yielded once,
\* whatever its variant.
next_of_any(self) ==
    IF self.node = NoneV THEN <<self, NoNode>>
    ELSE <<[self EXCEPT !.node = NoneV], SomeNode(self.node[1])>>

RECURSIVE next(_)
RECURSIVE next_from_node(_)

\* Lines 573-640: the part of next that runs once the child is drained.
next_from_node(self) ==
    IF self.node = NoneV THEN <<self, NoNode>>
    ELSE LET node == self.node[1] IN
    IF is_array(node) THEN
        LET elems == node[2]
            index == IF self.array_index = NoneV THEN 0 ELSE self.array_index[1] + 1
        IN IF index >= Len(elems) THEN <<self, Panic>>        \* nodes[index]
           ELSE LET started == [self EXCEPT !.array_index = SomeV(index),
                                            !.child = SomeV(into_iter(elems[index + 1]))]
                    rec == next(started)
                    last_one == IF self.array_index = NoneV
                                THEN Len(elems) = 1
                                ELSE index = Len(elems) - 1
                IN IF IsPanic(rec[2]) THEN rec
                   ELSE IF last_one
                   THEN <<[rec[1] EXCEPT !.array_index = NoneV, !.node = NoneV], rec[2]>>
                   ELSE rec
    ELSE IF is_object(node) THEN
        LET properties == node[2]
            index == IF self.object_index = NoneV THEN 0 ELSE self.object_index[1] + 1
        IN IF index >= Len(properties) THEN <<self, Panic>>   \* properties[index]
           ELSE LET started == [self EXCEPT !.object_index = SomeV(index),
                                            !.child = SomeV(into_iter(properties[index + 1][2]))]
                    rec == next(started)
                IN IF IsPanic(rec[2]) THEN rec
                   ELSE IF self.object_index = NoneV
                   THEN IF Len(properties) = 1
                        THEN <<[rec[1] EXCEPT !.object_index = NoneV], rec[2]>>
                        ELSE rec
                   ELSE IF index = Len(properties) - 1
                        THEN <<[rec[1] EXCEPT !.object_index = NoneV, !.node = NoneV], rec[2]>>
                        ELSE rec
    ELSE <<[self EXCEPT !.node = NoneV], SomeNode(node)>>

\* Lines 564-571: drain the child first.
next(self) ==
    IF self.child # NoneV
    THEN LET rec == next(self.child[1])
         IN IF IsPanic(rec[2]) THEN <<self, Panic>>
            ELSE IF rec[2] # NoNode
            THEN <<[self EXCEPT !.child = SomeV(rec[1])], rec[2]>>
            ELSE next_from_node([self EXCEPT !.child = NoneV])
    ELSE next_from_node(self)

\* The scalar leaves of a tree, depth first, in stored order.
RECURSIVE Leaves(_)
RECURSIVE LeavesOfSeq(_)
LeavesOfSeq(ns) ==
    IF ns = <<>> THEN <<>> ELSE Leaves(Head(ns)) \o LeavesOfSeq(Tail(ns))

Leaves(node) ==
    IF is_array(node) THEN LeavesOfSeq(node[2])
    ELSE IF is_object(node) THEN LeavesOfSeq(nodes(node[2]))
    ELSE <<node>>

-----------------------------------------------------------------------------
(* Inputs: property names, trees by number of nodes, valid JSON text.      *)

Letters == <<"a", "b", "c", "d", "e", "f", "g", "h">>
NameOf(i) == <<Letters[i]>>

\* The children f as the entries of an object: the i-th is named NameOf(i).
Named(f) == [i \in 1..Len(f) |-> <<NameOf(i), f[i]>>]

RECURSIVE TreesOfSize(_, _)
RECURSIVE ForestsOfSize(_, _)
TreesOfSize(n, scalars) ==
    IF n = 1 THEN scalars \cup {Array(<<>>), Object(<<>>)}
    ELSE {Array(f) : f \in ForestsOfSize(n - 1, scalars) \ {<<>>}}
         \cup {Object(Named(f)) : f \in ForestsOfSize(n - 1, scalars) \ {<<>>}}

ForestsOfSize(n, scalars) ==
    IF n = 0 THEN {<<>>}
    ELSE UNION {{<<t>> \o f : t \in TreesOfSize(k, scalars),
                              f \in ForestsOfSize(n - k, scalars)} : k \in 1..n}

TreesUpTo(n, scalars) == UNION {TreesOfSize(k, scalars) : k \in 1..n}

\* The tree of the into_iter doc test: [[1],2,[3]].
DocTree ==
    Array(<<Array(<<Integer(1)>>), Integer(2), Array(<<Integer(3)>>)>>)

\* The trees of up to n nodes over two scalars, and the doc test's tree.
IterTrees(n) == TreesUpTo(n, {Integer(1), Integer(2)}) \cup {DocTree}

RoundTripScalars ==
    {Integer(1), Float(1, 15, 1), Float(1, 1, 0), String(<<"a">>), Boolean(TRUE), Null}

\* An object with members of the test parse_sample_json:
\* {"name":"Jason","age":30,"numbers":[1,2,3]}
SampleTree ==
    Object(<< <<<<"n", "a", "m", "e">>, String(<<"J", "a", "s", "o", "n">>)>>,
              <<<<"a", "g", "e">>, Integer(30)>>,
              <<<<"n", "u", "m", "b", "e", "r", "s">>,
                Array(<<Integer(1), Integer(2), Integer(3)>>)>> >>)

RoundTripTrees(n) == TreesUpTo(n, RoundTripScalars) \cup {SampleTree}

\* The trees that are inspected: every variant, at the root and below it.
InspectScalars ==
    {Integer(1), Integer(0), Float(1, 15, 1), Float(0 - 1, 0, 0), String(<<"a">>),
     String(<<>>), Boolean(TRUE), Boolean(FALSE), Null}

InspectTrees(n) == TreesUpTo(n, InspectScalars)

\* The trees that are serialized: strings and a name that hold a space.
SerializeScalars ==
    {Integer(1), Float(1, 15, 1), String(<<"a">>), String(<<" ">>), Null}

SerializeTrees(n) ==
    TreesUpTo(n, SerializeScalars)
    \cup {Object(<<<<<<"a", " ", "b">>, Integer(1)>>, <<<<"c">>, String(<<" ">>)>>>>)}

\* A tree written as valid JSON text (RFC 8259), without whitespace: a Float
\* always carries a fraction, an empty object is {}.
RECURSIVE ValidJson(_)
ValidJson(node) ==
    CASE node[1] = "String" -> <<"\"">> \o node[2] \o <<"\"">>
      [] node[1] = "Integer" -> i64_to_string(node[2])
      [] node[1] = "Float" ->
            IF node[4] = 0 THEN f64_to_string(node[2], node[3], 0) \o <<".", "0">>
            ELSE f64_to_string(node[2], node[3], node[4])
      [] node[1] = "Boolean" -> IF node[2] THEN TRUE_TOKEN ELSE FALSE_TOKEN
      [] node[1] = "Null" -> NULL
      [] node[1] = "Array" ->
            <<"[">> \o join([i \in 1..Len(node[2]) |-> ValidJson(node[2][i])], <<",">>)
                    \o <<"]">>
      [] node[1] = "Object" ->
            <<"{">> \o join([i \in 1..Len(node[2]) |->
                                <<"\"">> \o node[2][i][1] \o <<"\"", ":">>
                                    \o ValidJson(node[2][i][2])], <<",">>)
                    \o <<"}">>

\* The lexemes a parsed text is put together from.
Lexemes ==
    { <<"[">>, <<"]">>, <<"{">>, <<"}">>, <<",">>, <<":">>, <<" ">>,
      <<"\"">>, <<"\"", "a", "\"">>, <<"1">> }

RECURSIVE TextsUpTo(_)
TextsUpTo(n) ==
    IF n = 0 THEN {<<>>}
    ELSE LET shorter == TextsUpTo(n - 1)
         IN shorter \cup {t \o l : t \in shorter, l \in Lexemes}

\* A text as the only element of an array, and as the value of an object's
\* only member.
AsElement(t) == <<"[">> \o t \o <<"]">>
AsMemberValue(t) == <<"{", "\"", "a", "\"", ":">> \o t \o <<"}">>

\* The texts handed to parse: all texts of up to n lexemes, and the shorter
\* ones nested one level down.
ParseTexts(n) ==
    TextsUpTo(n)
    \cup {AsElement(t) : t \in TextsUpTo(n - 1)}
    \cup {AsMemberValue(t) : t \in TextsUpTo(n - 1)}

\* The lexemes of the parsed texts and two more kinds of whitespace.
SpacedLexemes == Lexemes \cup { <<"\t">>, <<"\n">> }

RECURSIVE SpacedTexts(_)
SpacedTexts(n) ==
    IF n = 0 THEN {<<>>}
    ELSE LET shorter == SpacedTexts(n - 1)
         IN shorter \cup {t \o l : t \in shorter, l \in SpacedLexemes}

\* The lexemes of the interior of an array or object: brackets, braces, the
\* comma, an element and a space.
SplitLexemes == { <<"[">>, <<"]">>, <<"{">>, <<"}">>, <<",">>, <<"1">>, <<" ">> }

RECURSIVE InteriorsUpTo(_)
InteriorsUpTo(n) ==
    IF n = 0 THEN {<<>>}
    ELSE LET shorter == InteriorsUpTo(n - 1)
         IN shorter \cup {t \o l : t \in shorter, l \in SplitLexemes}

\* Each interior between brackets and between braces.
SplitTexts(n) ==
    {<<"[">> \o t \o <<"]">> : t \in InteriorsUpTo(n)}
    \cup {<<"{">> \o t \o <<"}">> : t \in InteriorsUpTo(n)}

\* The lexemes of a member's value: braces, a quoted name, the colon, a lone
\* quote (so that a string may hold a colon) and a number.
ValueLexemes == { <<"{">>, <<"}">>, <<"\"", "a", "\"">>, <<":">>, <<"\"">>, <<"1">> }

RECURSIVE ValuesUpTo(_)
ValuesUpTo(n) ==
    IF n = 0 THEN {<<>>}
    ELSE LET shorter == ValuesUpTo(n - 1)
         IN shorter \cup {t \o l : t \in shorter, l \in ValueLexemes}

\* Each value as the value of the only member of an object.
MemberValueTexts(n) == {AsMemberValue(t) : t \in ValuesUpTo(n)}

\* The lexemes of the members of an object: a whole member, a quoted name, a
\* letter, the colon, a number, the comma, a space and a lone quote.
MemberLexemes ==
    { <<"\"", "a", "\"", ":", "1">>, <<"\"", "a", "\"">>, <<"a">>, <<":">>, <<"1">>,
      <<",">>, <<" ">>, <<"\"">> }

RECURSIVE MembersUpTo(_)
MembersUpTo(n) ==
    IF n = 0 THEN {<<>>}
    ELSE LET shorter == MembersUpTo(n - 1)
         IN shorter \cup {t \o l : t \in shorter, l \in MemberLexemes}

\* Each sequence of member lexemes between braces.
MemberTexts(n) == {<<"{">> \o t \o <<"}">> : t \in MembersUpTo(n)}

\* The trees written as text with whitespace: a string that holds a space.
PaddedScalars == {Integer(1), String(<<"a", " ", "b">>)}

PaddedTrees(n) == TreesUpTo(n, PaddedScalars)

\* The text of a tree cut where whitespace may stand: in front of and behind a
\* scalar, a bracket, a brace and a comma, and behind the colon of a member;
\* a name and its colon stay in one piece.
RECURSIVE Tokens(_)
Tokens(node) ==
    CASE node[1] = "Array" ->
            << <<"[">> >> \o join([i \in 1..Len(node[2]) |-> Tokens(node[2][i])],
                                  << <<",">> >>)
                         \o << <<"]">> >>
      [] node[1] = "Object" ->
            << <<"{">> >> \o join([i \in 1..Len(node[2]) |->
                                     << <<"\"">> \o node[2][i][1] \o <<"\"", ":">> >>
                                         \o Tokens(node[2][i][2])], << <<",">> >>)
                         \o << <<"}">> >>
      [] OTHER -> <<ValidJson(node)>>

PadStrings == { <<" ">>, <<"\n">>, <<"\t", " ">> }

\* The tokens written one after the other, with pad at the cuts in at (cut 0
\* is in front of the first token).
Padded(tokens, pad, at) ==
    join([k \in 1..Len(tokens) |->
             (IF k - 1 \in at THEN pad ELSE <<>>) \o tokens[k]], <<>>)
        \o (IF Len(tokens) \in at THEN pad ELSE <<>>)

\* The text of a tree without whitespace, with whitespace at one cut, and with
\* whitespace at every cut.
PaddedTexts(node) ==
    LET tokens == Tokens(node)
        cuts == 0..Len(tokens)
    IN {Padded(tokens, pad, at) : pad \in PadStrings,
                                   at \in {{}, cuts} \cup {{k} : k \in cuts}}

\* The characters of the strings that are serialized and parsed back: the
\* structural characters, the quote, the backslash, whitespace, a letter and
\* a digit.
StringChars == {"\"", ",", ":", "[", "]", "{", "}", "\\", " ", "a", "1"}

RECURSIVE StringBodies(_)
StringBodies(n) ==
    IF n = 0 THEN {<<>>}
    ELSE LET shorter == StringBodies(n - 1)
         IN shorter \cup {t \o <<c>> : t \in shorter, c \in StringChars}

\* The characters between the quotes of a string element or member value:
\* letters, the comma, the colon and a space.
QuotedChars == {"a", "b", ",", ":", " "}

RECURSIVE QuotedBodies(_)
QuotedBodies(n) ==
    IF n = 0 THEN {<<>>}
    ELSE LET shorter == QuotedBodies(n - 1)
         IN shorter \cup {t \o <<c>> : t \in shorter, c \in QuotedChars}

\* Each body between quotes, as the only element of an array and as the value
\* of the only member of an object.
QuotedTexts(n) ==
    {AsElement(<<"\"">> \o b \o <<"\"">>) : b \in QuotedBodies(n)}
    \cup {AsMemberValue(<<"\"">> \o b \o <<"\"">>) : b \in QuotedBodies(n)}

\* The lexemes of scalar texts: quotes, digits, signs, a point, whitespace,
\* the keywords in several cases, and a bracket.
ScalarLexemes ==
    { <<"\"">>, <<"a">>, <<"1">>, <<"0">>, <<".">>, <<"-">>, <<"+">>, <<" ">>, <<"\t">>,
      TRUE_TOKEN, <<"T", "r", "u", "e">>, FALSE_TOKEN, <<"F", "A", "L", "S", "E">>,
      NULL, <<"N", "u", "l", "l">>, <<"[">> }

RECURSIVE ScalarTexts(_)
ScalarTexts(n) ==
    IF n = 0 THEN {<<>>}
    ELSE LET shorter == ScalarTexts(n - 1)
         IN shorter \cup {t \o l : t \in shorter, l \in ScalarLexemes}

MapNames == {NameOf(i) : i \in 1..MaxEntries}
MapValues == {Integer(1), Integer(2)}

-----------------------------------------------------------------------------
(* Idle values of the variables a specification does not use.              *)

NoOp ==
    [op |-> "new", name |-> <<>>, node |-> Null, before |-> <<>>, out |-> <<"Unit">>,
     prev |-> <<"none", <<>>, "Unit">>]

\* What the operation before the last one was: <<op, name, tag of its outcome>>.
PrevOf(l) == <<l.op, l.name, l.out[1]>>

MapIdle == map = new /\ order = <<>> /\ last = NoOp
IterIdle == iter = NoneV /\ yielded = <<>> /\ status = "idle" /\ calls = 0
ParseIdle == text = <<>> /\ result = NoNode /\ pc = "off"
\* Before any predicate or accessor of JsonNode was called.
NoView == <<>>
ViewIdle == inner = <<>> /\ output = <<>> /\ seen = NoView /\ pieces = <<>>

-----------------------------------------------------------------------------
(* The JsonPropertyMap client: add, remove and clear from an empty map.    *)

MapInit == MapIdle /\ tree = Null /\ IterIdle /\ ParseIdle /\ ViewIdle

MapAdd(name, node) ==
    /\ Len(map) <= MaxEntries
    /\ map' = add(map, name, node)
    /\ order' = IF \E i \in 1..Len(order) : order[i][1] = name
                THEN order ELSE Append(order, <<name, node>>)
    /\ last' = [op |-> "add", name |-> name, node |-> node, before |-> map,
                out |-> <<"Unit">>, prev |-> PrevOf(last)]
    /\ UNCHANGED <<tree, iter, yielded, status, calls, text, result, pc, inner, output, seen, pieces>>

MapRemove(name) ==
    /\ map' = remove(map, name)[1]
    /\ order' = LET Keep(e) == e[1] # name IN SelectSeq(order, Keep)
    /\ last' = [op |-> "remove", name |-> name, node |-> Null, before |-> map,
                out |-> remove(map, name)[2], prev |-> PrevOf(last)]
    /\ UNCHANGED <<tree, iter, yielded, status, calls, text, result, pc, inner, output, seen, pieces>>

MapClear ==
    /\ map' = clear(map)
    /\ order' = <<>>
    /\ last' = [op |-> "clear", name |-> <<>>, node |-> Null, before |-> map,
                out |-> <<"Unit">>, prev |-> PrevOf(last)]
    /\ UNCHANGED <<tree, iter, yielded, status, calls, text, result, pc, inner, output, seen, pieces>>

MapNext ==
    \/ \E name \in MapNames, node \in MapValues : MapAdd(name, node)
    \/ \E name \in MapNames : MapRemove(name)
    \/ MapClear

SpecMap == MapInit /\ [][MapNext]_vars

-----------------------------------------------------------------------------
(* The JsonPropertyMap client that starts from a map built from a sequence *)
(* of pairs, in which names may repeat.                                    *)

RECURSIVE PairSeqs(_)
PairSeqs(n) ==
    IF n = 0 THEN {<<>>}
    ELSE LET shorter == PairSeqs(n - 1)
         IN shorter \cup {Append(q, <<name, node>>) :
                              q \in {r \in shorter : Len(r) = n - 1},
                              name \in MapNames, node \in MapValues}

MapFromInit ==
    /\ \E pairs \in PairSeqs(MaxPairs) :
          map = from(pairs) /\ order = pairs /\ last = [NoOp EXCEPT !.op = "from"]
    /\ tree = Null /\ IterIdle /\ ParseIdle /\ ViewIdle

MapFromNext ==
    \/ \E name \in MapNames : MapRemove(name)
    \/ MapClear

SpecMapFrom == MapFromInit /\ [][MapFromNext]_vars

-----------------------------------------------------------------------------
(* The traversal client: into_iter on a tree, then next() again and again. *)

IterInit == tree \in IterTrees(MaxNodes) /\ IterIdle /\ MapIdle /\ ParseIdle /\ ViewIdle

IntoIter ==
    /\ status = "idle"
    /\ iter' = SomeV(into_iter(tree))
    /\ status' = "run"
    /\ UNCHANGED <<map, order, last, tree, yielded, calls, text, result, pc, inner, output, seen, pieces>>

CallNext ==
    /\ status \in {"run", "done"}
    /\ calls < Len(Leaves(tree)) + MaxExtraCalls
    /\ LET r == next(iter[1])
       IN /\ iter' = IF IsPanic(r[2]) THEN iter ELSE SomeV(r[1])
          /\ yielded' = IF r[2][1] = "Some" THEN Append(yielded, r[2][2]) ELSE yielded
          /\ status' = IF IsPanic(r[2]) THEN "panic"
                       ELSE IF r[2] = NoNode THEN "done" ELSE "run"
    /\ calls' = calls + 1
    /\ UNCHANGED <<map, order, last, tree, text, result, pc, inner, output, seen, pieces>>

IterNext == IntoIter \/ CallNext

SpecIter == IterInit /\ [][IterNext]_vars

-----------------------------------------------------------------------------
(* The parsing client: JsonNode::parse on a text.                          *)

ParseInit ==
    /\ text \in ParseTexts(MaxLexemes) /\ result = NoNode /\ pc = "input"
    /\ tree = Null /\ MapIdle /\ IterIdle /\ ViewIdle

Parse ==
    /\ pc = "input"
    /\ result' = parse(text)
    /\ inner' = RecursiveCalls(text)
    /\ pieces' = SplitOf(text)
    /\ pc' = "done"
    /\ UNCHANGED <<map, order, last, tree, iter, yielded, status, calls, text, output, seen>>

ParseNext == Parse

SpecParse == ParseInit /\ [][ParseNext]_vars

\* The parsing client on short texts with whitespace of several kinds.
SpacedInit ==
    /\ text \in SpacedTexts(MaxSpacedLexemes) /\ result = NoNode /\ pc = "input"
    /\ tree = Null /\ MapIdle /\ IterIdle /\ ViewIdle

SpecSpaced == SpacedInit /\ [][ParseNext]_vars

\* The parsing client on arrays and objects with nested brackets and commas.
SplitInit ==
    /\ text \in SplitTexts(MaxSplitLexemes) /\ result = NoNode /\ pc = "input"
    /\ tree = Null /\ MapIdle /\ IterIdle /\ ViewIdle

SpecSplit == SplitInit /\ [][ParseNext]_vars

\* The parsing client on objects of one member whose value holds colons.
MemberValueInit ==
    /\ text \in MemberValueTexts(MaxValueLexemes) /\ result = NoNode /\ pc = "input"
    /\ tree = Null /\ MapIdle /\ IterIdle /\ ViewIdle

SpecMemberValue == MemberValueInit /\ [][ParseNext]_vars

\* The parsing client on objects whose members have quoted, unquoted, spaced
\* and repeated names.
MemberInit ==
    /\ text \in MemberTexts(MaxMemberLexemes) /\ result = NoNode /\ pc = "input"
    /\ tree = Null /\ MapIdle /\ IterIdle /\ ViewIdle

SpecMember == MemberInit /\ [][ParseNext]_vars

\* The parsing client on valid JSON text with whitespace around the text, the
\* elements, the members and the values.
PaddedInit ==
    /\ tree \in PaddedTrees(MaxPaddedNodes)
    /\ text \in PaddedTexts(tree)
    /\ result = NoNode /\ pc = "input"
    /\ MapIdle /\ IterIdle /\ ViewIdle

SpecPadded == PaddedInit /\ [][ParseNext]_vars

\* The parsing client on arrays and objects that hold one quoted string.
QuotedInit ==
    /\ text \in QuotedTexts(MaxQuotedChars) /\ result = NoNode /\ pc = "input"
    /\ tree = Null /\ MapIdle /\ IterIdle /\ ViewIdle

SpecQuoted == QuotedInit /\ [][ParseNext]_vars

\* The parsing client on scalar texts.
ScalarInit ==
    /\ text \in ScalarTexts(MaxScalarLexemes) /\ result = NoNode /\ pc = "input"
    /\ tree = Null /\ MapIdle /\ IterIdle /\ ViewIdle

SpecScalar == ScalarInit /\ [][ParseNext]_vars

-----------------------------------------------------------------------------
(* The round-trip client: parse valid JSON, serialize the tree, parse the  *)
(* serialization.                                                          *)

RoundTripInit ==
    /\ text \in {ValidJson(t) : t \in RoundTripTrees(MaxRoundTripNodes)}
    /\ result = NoNode /\ pc = "input"
    /\ tree = Null /\ MapIdle /\ IterIdle /\ ViewIdle

ParseInput ==
    /\ pc = "input"
    /\ result' = parse(text)
    /\ pc' = IF result'[1] = "Ok" THEN "parsed" ELSE "rejected"
    /\ tree' = IF result'[1] = "Ok" THEN result'[2] ELSE tree
    /\ UNCHANGED <<map, order, last, iter, yielded, status, calls, text, inner, output, seen, pieces>>

Serialize ==
    /\ pc = "parsed"
    /\ output' = to_json_string(tree)
    /\ pc' = "serialized"
    /\ UNCHANGED <<map, order, last, tree, iter, yielded, status, calls, text, result, inner, seen, pieces>>

Reparse ==
    /\ pc = "serialized"
    /\ result' = parse(output)
    /\ pc' = "reparsed"
    /\ UNCHANGED <<map, order, last, tree, iter, yielded, status, calls, text, inner, output, seen, pieces>>

RoundTripNext == ParseInput \/ Serialize \/ Reparse

SpecRoundTrip == RoundTripInit /\ [][RoundTripNext]_vars

\* The client that serializes a String node and parses the text back.
StringInit ==
    /\ tree \in {String(s) : s \in StringBodies(MaxStringChars)}
    /\ text = <<>> /\ result = NoNode /\ pc = "parsed"
    /\ MapIdle /\ IterIdle /\ ViewIdle

StringNext == Serialize \/ Reparse

SpecString == StringInit /\ [][StringNext]_vars

-----------------------------------------------------------------------------
(* The serializing client: to_json_string of a tree, and of the entries of *)
(* an object held in either of the two containers.                         *)

SerializeInit ==
    /\ tree \in SerializeTrees(MaxSerializedNodes)
    /\ pc = "tree" /\ output = <<>>
    /\ text = <<>> /\ result = NoNode /\ inner = <<>> /\ seen = NoView /\ pieces = <<>>
    /\ MapIdle /\ IterIdle

NodeToJsonString ==
    /\ pc = "tree"
    /\ output' = to_json_string(tree)
    /\ pc' = "node"
    /\ UNCHANGED <<map, order, last, tree, iter, yielded, status, calls, text, result,
                   inner, seen, pieces>>

MapToJsonString ==
    /\ pc = "tree"
    /\ is_object(tree)
    /\ output' = map_to_json_string(tree[2])
    /\ pc' = "map"
    /\ UNCHANGED <<map, order, last, tree, iter, yielded, status, calls, text, result,
                   inner, seen, pieces>>

DictionaryToJsonString ==
    /\ pc = "tree"
    /\ is_object(tree)
    /\ output' = dictionary_to_json_string(tree[2])
    /\ pc' = "dictionary"
    /\ UNCHANGED <<map, order, last, tree, iter, yielded, status, calls, text, result,
                   inner, seen, pieces>>

SerializeNext == NodeToJsonString \/ MapToJsonString \/ DictionaryToJsonString

SpecSerialize == SerializeInit /\ [][SerializeNext]_vars

-----------------------------------------------------------------------------
(* The inspecting client: every predicate and every accessor of JsonNode   *)
(* called on a tree.                                                       *)

InspectInit ==
    /\ tree \in InspectTrees(MaxInspectedNodes)
    /\ pc = "tree" /\ seen = NoView
    /\ text = <<>> /\ result = NoNode /\ inner = <<>> /\ output = <<>> /\ pieces = <<>>
    /\ MapIdle /\ IterIdle

Inspect ==
    /\ pc = "tree"
    /\ seen' = [is_object |-> is_object(tree), is_array |-> is_array(tree),
                is_string |-> is_string(tree), is_integer |-> is_integer(tree),
                is_float |-> is_float(tree), is_bool |-> is_bool(tree),
                is_null |-> is_null(tree),
                as_object |-> as_object(tree), as_array |-> as_array(tree),
                as_object_mut |-> as_object_mut(tree),
                as_array_mut |-> as_array_mut(tree),
                as_string |-> as_string(tree), as_integer |-> as_integer(tree),
                as_float |-> as_float(tree), as_boolean |-> as_boolean(tree),
                as_string_mut |-> as_string_mut(tree),
                as_integer_mut |-> as_integer_mut(tree),
                as_float_mut |-> as_float_mut(tree),
                as_boolean_mut |-> as_boolean_mut(tree)]
    /\ pc' = "seen"
    /\ UNCHANGED <<map, order, last, tree, iter, yielded, status, calls, text, result,
                   inner, output, pieces>>

InspectNext == Inspect

SpecInspect == InspectInit /\ [][InspectNext]_vars

\* The default specification: the JsonPropertyMap client.
Init == MapInit
Next == MapNext
Spec == Init /\ [][Next]_vars

-----------------------------------------------------------------------------
(* Claims.                                                                 *)

IsPrefix(s, t) == Len(s) <= Len(t) /\ s = SubSeq(t, 1, Len(s))

\* C1 (SpecRoundTrip): for every tree obtained by parsing valid JSON text,
\* parsing the tree's to_json_string() succeeds and gives a tree structurally
\* equal to it.
C1_RoundTrip ==
    pc = "reparsed" => (result[1] = "Ok" /\ NodeEq(result[2], tree))

\* C2 (SpecIter): the nodes next() yields are at every moment the first scalar
\* leaves of the tree in depth-first stored order, and once next() has returned
\* None they are exactly all the leaves, each once.
C2_LeavesInOrder ==
    /\ IsPrefix(yielded, Leaves(tree))
    /\ status = "done" => yielded = Leaves(tree)

\* C3 (SpecIter): the traversal is finite and yields no leaf twice: a call of
\* next() that yields a node is never later than the number of leaves, so a
\* further call returns None.
C3_FiniteOnce ==
    status = "run" => calls <= Len(Leaves(tree))

\* C4 (SpecParse): parse is total: on every text it returns Ok or Err and
\* never aborts.
C4_ParseTotal ==
    pc = "done" => result[1] \in {"Ok", "Err"}

\* The members of the object text t, as parse_object splits them:
\* the Option of <<name part, value part>> of each.
MembersOf(t) ==
    LET properties == split_loop(trim(SubSeq(trim(t), 2, Len(trim(t)) - 1)), <<>>, <<>>, 0)
    IN [i \in 1..Len(properties) |-> split_once(trim(properties[i]), COLON)]

IsObjectText(t) ==
    /\ starts_with(trim(t), LEFT_BRACE) /\ ends_with(trim(t), RIGHT_BRACE)
    /\ ~is_blank(trim(SubSeq(trim(t), 2, Len(trim(t)) - 1)))

IsQuoted(s) == Len(s) >= 2 /\ starts_with(s, DOUBLE_QUOTE) /\ ends_with(s, DOUBLE_QUOTE)

\* t is an object text whose members all have a quoted name and a value part,
\* none of whose value parts aborts, and one of whose value parts fails to parse.
MemberValueFails(t) ==
    /\ IsObjectText(t)
    /\ \A i \in 1..Len(MembersOf(t)) :
          /\ MembersOf(t)[i] # NoneV
          /\ IsQuoted(MembersOf(t)[i][1][1])
          /\ ~IsPanic(parse_node(MembersOf(t)[i][1][2], SomeV(t)))
    /\ \E i \in 1..Len(MembersOf(t)) :
          parse_node(MembersOf(t)[i][1][2], SomeV(t))[1] = "Err"

\* C5 (SpecParse): when the value part of a member of an object fails to
\* parse, parse of the object text returns the CouldntParseNode error carrying
\* that text, and no object.
C5_MemberFailureIsError ==
    (pc = "done" /\ MemberValueFails(text)) => result = Err(CouldntParseNode(text))

\* The elements of the array text t, as parse_array splits them.
ElementsOf(t) ==
    split_loop(trim(SubSeq(trim(t), 2, Len(trim(t)) - 1)), <<>>, <<>>, 0)

IsArrayText(t) ==
    /\ starts_with(trim(t), LEFT_BRACKET) /\ ends_with(trim(t), RIGHT_BRACKET)
    /\ ~is_blank(trim(SubSeq(trim(t), 2, Len(trim(t)) - 1)))

\* The element e of the array text t fails to parse: its parse returns an
\* error, or it is an object one of whose member values fails to parse.
FailsToParse(e, t) ==
    IF MemberValueFails(e) THEN TRUE ELSE parse_node(e, SomeV(t))[1] = "Err"

\* t is an array text each of whose elements parses to a node or fails to
\* parse, and one of whose elements fails to parse.
ElementFails(t) ==
    /\ IsArrayText(t)
    /\ \A i \in 1..Len(ElementsOf(t)) :
          \/ FailsToParse(trim(ElementsOf(t)[i]), t)
          \/ parse_node(trim(ElementsOf(t)[i]), SomeV(t))[1] = "Ok"
    /\ \E i \in 1..Len(ElementsOf(t)) : FailsToParse(trim(ElementsOf(t)[i]), t)

\* C6 (SpecParse): when an element of an array fails to parse, at any depth,
\* the top-level parse returns one CouldntParseNode error whose payload is the
\* whole input text, and no array.
C6_ElementFailureIsError ==
    (pc = "done" /\ ElementFails(text)) => result = Err(CouldntParseNode(text))

\* C7 (SpecMap): add of a name the map already holds leaves the map exactly
\* as it was (entries, order, length, the first value); add of an absent name
\* appends exactly one entry at the end.
C7_FirstWriteWins ==
    last.op = "add" =>
        IF contains_property(last.before, last.name)
        THEN map = last.before
        ELSE /\ len(map) = len(last.before) + 1
             /\ SubSeq(map, 1, len(last.before)) = last.before
             /\ map[len(map)] = <<last.name, last.node>>

\* C7 witness: an add of a held name with a different value has been ignored.
C7_Witness ==
    /\ last.op = "add"
    /\ contains_property(last.before, last.name)
    /\ get(last.before, last.name) # SomeV(last.node)
    /\ get(map, last.name) = get(last.before, last.name)

\* C8 (SpecMap): from an empty map, after any sequence of add, remove and
\* clear, no two entries of the map share a name.
C8_UniqueNames ==
    \A i, j \in 1..Len(map) : i # j => map[i][1] # map[j][1]

\* C8 witness: a full map on which an add of a held name has just been made.
C8_Witness ==
    /\ last.op = "add"
    /\ len(last.before) = MaxEntries
    /\ contains_property(last.before, last.name)
    /\ len(map) = MaxEntries

\* The serialization of the entries es in the order given.
InOrderText(es) ==
    <<"{">> \o join([i \in 1..Len(es) |->
                        <<"\"">> \o es[i][1] \o <<"\"", ":">> \o to_json_string(es[i][2])],
                    <<",">>)
            \o <<"}">>

\* C9 (SpecMap): the order of the entries as seen by iteration, by
\* property_names(), by nodes(), by index and by to_json_string() is the
\* order in which the surviving entries were successfully added.
C9_InsertionOrder ==
    /\ map = order
    /\ property_names(map) = [i \in 1..Len(order) |-> order[i][1]]
    /\ nodes(map) = [i \in 1..Len(order) |-> order[i][2]]
    /\ \A i \in 1..Len(order) : map[i] = order[i]
    /\ ~is_empty(map) => map_to_json_string(map) = InOrderText(order)

\* C9 witness: a name has been removed from the front of a map of several
\* entries and added again, and is now the last entry.
C9_Witness ==
    /\ last.op = "add"
    /\ last.prev = <<"remove", last.name, "Ok">>
    /\ len(map) >= 2
    /\ ~contains_property(last.before, last.name)
    /\ map[len(map)][1] = last.name

\* C10 (SpecMap): remove of a name the map does not hold fails with
\* KeyNotFound carrying the name and leaves the map unchanged.
C10_RemoveAbsent ==
    (last.op = "remove" /\ ~contains_property(last.before, last.name)) =>
        /\ last.out = Err(KeyNotFound(last.name))
        /\ map = last.before

\* C10 witness: a remove of an absent name has been made on a non-empty map.
C10_Witness ==
    /\ last.op = "remove"
    /\ ~contains_property(last.before, last.name)
    /\ ~is_empty(last.before)
    /\ last.out[1] = "Err"

\* How many entries of m are named property_name.
NameCount(m, property_name) ==
    Cardinality({i \in 1..Len(m) : m[i][1] = property_name})

\* C11 (SpecMapFrom): remove of a name that two or more entries of the map
\* share fails with MultiplePropertiesWithSameKey carrying the name and removes
\* none of the entries.
C11_RemoveDuplicated ==
    (last.op = "remove" /\ NameCount(last.before, last.name) >= 2) =>
        /\ last.out = Err(MultiplePropertiesWithSameKey(last.name))
        /\ map = last.before

C11_Witness ==
    /\ last.op = "remove"
    /\ NameCount(last.before, last.name) >= 2
    /\ last.prev[1] = "from"

\* The entries of m not named property_name, in their order.
Others(m, property_name) ==
    LET Keep(e) == e[1] # property_name IN SelectSeq(m, Keep)

\* C12 (SpecMapFrom): remove of a name exactly one entry has succeeds: it
\* returns that entry's node, the map is one entry shorter, the name is no
\* longer contained, and the other entries keep their values and order.
C12_RemoveOne ==
    (last.op = "remove" /\ NameCount(last.before, last.name) = 1) =>
        /\ \E i \in 1..Len(last.before) :
              /\ last.before[i][1] = last.name
              /\ last.out = Ok(last.before[i][2])
        /\ len(map) = len(last.before) - 1
        /\ ~contains_property(map, last.name)
        /\ map = Others(last.before, last.name)

\* The removed entry stood between two others.
C12_Witness ==
    /\ last.op = "remove"
    /\ NameCount(last.before, last.name) = 1
    /\ len(last.before) >= 3
    /\ last.before[2][1] = last.name
    /\ last.out[1] = "Ok"

\* C13 (SpecSerialize): to_json_string of an empty property map, and of the
\* Object node that holds it, is the two-character text {}.
C13_EmptyObjectText ==
    (pc \in {"node", "map", "dictionary"} /\ tree = Object(new)) =>
        output = <<"{", "}">>

\* The number of whitespace characters of a text.
WsCount(s) == Cardinality({i \in 1..Len(s) : s[i] \in WhiteSpace})

RECURSIVE WsInTree(_)
RECURSIVE WsInSeq(_)
RECURSIVE WsInEntries(_)
WsInSeq(children) ==
    IF children = <<>> THEN 0 ELSE WsInTree(children[1]) + WsInSeq(Tail(children))
WsInEntries(entries) ==
    IF entries = <<>> THEN 0
    ELSE WsCount(entries[1][1]) + WsInTree(entries[1][2]) + WsInEntries(Tail(entries))
\* The number of whitespace characters inside the string values and the
\* property names of a tree.
WsInTree(node) ==
    CASE node[1] = "String" -> WsCount(node[2])
      [] node[1] = "Array" -> WsInSeq(node[2])
      [] node[1] = "Object" -> WsInEntries(node[2])
      [] OTHER -> 0

\* C14 (SpecSerialize): serialization inserts no whitespace: the output holds
\* no whitespace beyond what is inside the string values and the names.
C14_NoInsertedWhitespace ==
    pc \in {"node", "map", "dictionary"} => WsCount(output) = WsInTree(tree)

\* The trimmed span s starts and ends with a double quote.
QuoteDelimited(s) == starts_with(s, DOUBLE_QUOTE) /\ ends_with(s, DOUBLE_QUOTE)

\* C15 (SpecScalar): the first scalar grammar the trimmed span matches, in the
\* order string, integer, float, boolean, null, decides the node: a span that
\* starts and ends with a double quote gives the String of its interior, text
\* i64 accepts gives that Integer, text only f64 accepts gives a Float, true and
\* false in any case give the Boolean, null in any case gives Null.
C15_ScalarPriority ==
    pc = "done" =>
        LET t == trim(text)
            int == parse_i64(t)
            float == parse_f64(t)
        IN /\ QuoteDelimited(t) => result = Ok(String(SubSeq(t, 2, Len(t) - 1)))
           /\ (~QuoteDelimited(t) /\ int # NoneV) => result = Ok(Integer(int[1]))
           /\ (~QuoteDelimited(t) /\ int = NoneV /\ float # NoneV) =>
                 result = Ok(Float(float[1][1], float[1][2], float[1][3]))
           /\ (~QuoteDelimited(t) /\ eq_ignore_ascii_case(t, TRUE_TOKEN)) =>
                 result = Ok(Boolean(TRUE))
           /\ (~QuoteDelimited(t) /\ eq_ignore_ascii_case(t, FALSE_TOKEN)) =>
                 result = Ok(Boolean(FALSE))
           /\ (~QuoteDelimited(t) /\ eq_ignore_ascii_case(t, NULL)) => result = Ok(Null)

\* s is the character left, whitespace only, and the character right.
BlankBetween(s, left, right) ==
    /\ Len(s) >= 2 /\ s[1] = left /\ s[Len(s)] = right
    /\ \A i \in 2..(Len(s) - 1) : s[i] \in WhiteSpace

\* C16 (SpecSpaced): a text whose trimmed form is a pair of braces around
\* nothing but whitespace parses to the Object with the empty property map,
\* and a pair of brackets around nothing but whitespace to the empty Array.
C16_EmptyContainers ==
    pc = "done" =>
        /\ BlankBetween(trim(text), LEFT_BRACE, RIGHT_BRACE) => result = Ok(Object(new))
        /\ BlankBetween(trim(text), LEFT_BRACKET, RIGHT_BRACKET) => result = Ok(Array(<<>>))

\* Braces around whitespace, with whitespace around them.
C16_Witness ==
    /\ pc = "done"
    /\ BlankBetween(trim(text), LEFT_BRACE, RIGHT_BRACE)
    /\ Len(trim(text)) > 2
    /\ Len(text) > Len(trim(text))
    /\ result = Ok(Object(new))

\* C17 (SpecSpaced): parse of an empty or whitespace-only text fails with
\* EmptyJsonNode carrying no parent text, and the recursive call on an empty
\* element or member value fails with EmptyJsonNode carrying the text of the
\* enclosing array or object.
C17_EmptyInput ==
    pc = "done" =>
        /\ trim(text) = <<>> => result = Err(EmptyJsonNode(NoneV))
        /\ \A i \in 1..Len(inner) :
              trim(inner[i][1]) = <<>> =>
                  /\ inner[i][2] = SomeV(text)
                  /\ inner[i][3] = Err(EmptyJsonNode(SomeV(text)))

\* An array or object with whitespace around it, one of whose elements or
\* member values is empty.
C17_Witness ==
    /\ pc = "done"
    /\ Len(text) > Len(trim(text))
    /\ \E i \in 1..Len(inner) : trim(inner[i][1]) = <<>>

\* s holds no double quote, so no span of it is a string or a quoted name.
QuoteFree(s) == \A i \in 1..Len(s) : s[i] # DOUBLE_QUOTE

\* C18 (SpecParse): parse of a text that is not blank and matches none of the
\* scalar, array and object grammars (it holds no double quote and does not
\* parse to a node) fails with CouldntParseNode carrying exactly the text that
\* was passed, untrimmed.
C18_UnparsableVerbatim ==
    (pc = "done" /\ trim(text) # <<>> /\ QuoteFree(text) /\ result[1] # "Ok") =>
        result = Err(CouldntParseNode(text))

\* C19 (SpecRoundTrip): parsing an object text gives the object whose entries
\* are the members in the order of the text, with their nested values, and
\* to_json_string of the result is the input text, which holds no whitespace.
C19_ObjectReproduced ==
    is_object(tree) =>
        /\ pc \in {"parsed", "serialized", "reparsed"} => ValidJson(tree) = text
        /\ pc \in {"serialized", "reparsed"} => output = text

\* What the predicates returned, in the order of the variants.
Predicates ==
    <<seen.is_object, seen.is_array, seen.is_string, seen.is_integer, seen.is_float,
      seen.is_bool, seen.is_null>>

\* What an accessor has to return given what its predicate returned.
Matching(is, payload) == IF is THEN SomeV(payload) ELSE NoneV

\* C20 (SpecInspect): exactly one of the seven predicates is true of a node,
\* and every accessor, mutable or not, returns the payload of the node when
\* its predicate is true and None otherwise.
C20_OneVariant ==
    pc = "seen" =>
        /\ Cardinality({i \in 1..Len(Predicates) : Predicates[i]}) = 1
        /\ seen.is_null <=> tree = Null
        /\ \A got \in {seen.as_object, seen.as_object_mut} :
              got = Matching(seen.is_object, tree[2])
        /\ \A got \in {seen.as_array, seen.as_array_mut} :
              got = Matching(seen.is_array, tree[2])
        /\ \A got \in {seen.as_string, seen.as_string_mut} :
              got = Matching(seen.is_string, tree[2])
        /\ \A got \in {seen.as_integer, seen.as_integer_mut} :
              got = Matching(seen.is_integer, tree[2])
        /\ \A got \in {seen.as_float, seen.as_float_mut} :
              got = Matching(seen.is_float, <<tree[2], tree[3], tree[4]>>)
        /\ \A got \in {seen.as_boolean, seen.as_boolean_mut} :
              got = Matching(seen.is_bool, tree[2])

\* An object with entries was inspected: as_object returned its map and
\* every other accessor None.
C20_Witness ==
    /\ pc = "seen"
    /\ seen.is_object /\ ~seen.is_array
    /\ seen.as_object = SomeV(tree[2]) /\ len(tree[2]) > 0
    /\ seen.as_array = NoneV /\ seen.as_string_mut = NoneV

\* The interior of the array or object text t, as the parser takes it.
InteriorOf(t) == trim(SubSeq(trim(t), 2, Len(trim(t)) - 1))

\* The bracket depth in front of the i-th character of s: openers before it
\* minus closers before it.
DepthBefore(s, i) ==
    Cardinality({j \in 1..(i - 1) : s[j] \in {LEFT_BRACE, LEFT_BRACKET}})
    - Cardinality({j \in 1..(i - 1) : s[j] \in {RIGHT_BRACE, RIGHT_BRACKET}})

\* The positions of the commas of s at depth 0.
Depth0Commas(s) == {i \in 1..Len(s) : s[i] = COMMA /\ DepthBefore(s, i) = 0}

\* The k-th depth-0 comma of s; position 0 for k = 0 and the position after
\* the end for k beyond the last.
CutAt(s, k) ==
    IF k = 0 THEN 0
    ELSE IF k > Cardinality(Depth0Commas(s)) THEN Len(s) + 1
    ELSE CHOOSE i \in Depth0Commas(s) :
            Cardinality({j \in Depth0Commas(s) : j < i}) = k - 1

\* C21 (SpecSplit): the interior of an array or object is split only at the
\* commas where the bracket depth is zero: there is one element more than
\* there are such commas, and each element is the trimmed text between two
\* neighbouring ones, so a nested array or object with commas stays whole.
C21_DepthZeroSplit ==
    (pc = "done" /\ (IsArrayText(text) \/ IsObjectText(text))) =>
        LET s == InteriorOf(text)
        IN /\ Len(pieces) = Cardinality(Depth0Commas(s)) + 1
           /\ \A k \in 1..Len(pieces) :
                 pieces[k] = trim(SubSeq(s, CutAt(s, k - 1) + 1, CutAt(s, k) - 1))

\* A text with a comma inside a nested array and a comma at depth 0.
C21_Witness ==
    /\ pc = "done"
    /\ IsArrayText(text)
    /\ Len(pieces) = 2
    /\ \E i \in 1..Len(InteriorOf(text)) :
          InteriorOf(text)[i] = COMMA /\ DepthBefore(InteriorOf(text), i) = 1
    /\ \E i \in 1..Len(pieces[1]) : pieces[1][i] = COMMA

\* The position of the first colon of s (0 when it has none).
FirstColon(s) ==
    IF \E i \in 1..Len(s) : s[i] = COLON
    THEN CHOOSE i \in 1..Len(s) : s[i] = COLON /\ \A j \in 1..(i - 1) : s[j] # COLON
    ELSE 0

NamePart(s) == SubSeq(s, 1, FirstColon(s) - 1)
ValuePart(s) == SubSeq(s, FirstColon(s) + 1, Len(s))

\* t is an object text each of whose members has a colon and, in front of its
\* first colon, a quoted name.
QuotedMembers(t) ==
    /\ IsObjectText(t)
    /\ \A i \in 1..Len(SplitOf(t)) :
          FirstColon(SplitOf(t)[i]) > 0 /\ IsQuoted(NamePart(SplitOf(t)[i]))

\* C22 (SpecMemberValue): a member is split at its first colon only: the text
\* handed to the parse of its value is everything after that colon, and when
\* that text parses, colons and all, the node is the member's value.
C22_FirstColonSplit ==
    (pc = "done" /\ QuotedMembers(text)) =>
        /\ \A i \in 1..Len(inner) : inner[i][1] = ValuePart(pieces[i])
        /\ (\A i \in 1..Len(pieces) :
                parse_node(ValuePart(pieces[i]), SomeV(text))[1] = "Ok") =>
              /\ result[1] = "Ok" /\ is_object(result[2])
              /\ len(result[2][2]) = Len(pieces)
              /\ \A i \in 1..Len(pieces) :
                    result[2][2][i][2] = parse_node(ValuePart(pieces[i]), SomeV(text))[2]

\* The value of the member is a string that holds a colon, or an object.
C22_Witness ==
    /\ pc = "done" /\ QuotedMembers(text)
    /\ result[1] = "Ok" /\ is_object(result[2])
    /\ \E i \in 1..Len(ValuePart(pieces[1])) : ValuePart(pieces[1])[i] = COLON
    /\ is_string(result[2][2][1][2])

\* The member p has a colon and, in front of its first colon, something other
\* than a quoted string (whitespace around it set aside).
UnquotedName(p) == FirstColon(p) > 0 /\ ~IsQuoted(trim(NamePart(p)))

\* C23 (SpecMember): an object one of whose members has a name part that is
\* not a quoted string does not parse: parse returns no Object for it.
C23_UnquotedNameFails ==
    (/\ pc = "done" /\ IsObjectText(text)
     /\ \E i \in 1..Len(pieces) : UnquotedName(pieces[i])) =>
        result[1] # "Ok"

\* The quoted name of the member p, whitespace around it set aside.
QuotedNameOf(p) == trim(NamePart(p))

\* C24 (SpecMember): in a successfully parsed object whose members all have a
\* quoted name, each stored name is the quoted name without its two quotes;
\* whitespace between the closing quote and the colon is not part of it.
C24_NameWithoutQuotes ==
    (/\ pc = "done" /\ IsObjectText(text)
     /\ result[1] = "Ok" /\ is_object(result[2])
     /\ \A i \in 1..Len(pieces) :
           FirstColon(pieces[i]) > 0 /\ IsQuoted(QuotedNameOf(pieces[i]))) =>
        /\ len(result[2][2]) = Len(pieces)
        /\ \A i \in 1..Len(pieces) :
              result[2][2][i][1] =
                  SubSeq(QuotedNameOf(pieces[i]), 2, Len(QuotedNameOf(pieces[i])) - 1)

\* C25 (SpecPadded): whitespace around the whole text, around an array
\* element, around an object member or between a member's colon and its value
\* does not change the parse result: the tree is that of the text without it.
C25_WhitespaceTolerance ==
    pc = "done" =>
        /\ result[1] = "Ok"
        /\ result = parse(ValidJson(tree))

\* A text with whitespace at every cut of an object holding an array.
C25_Witness ==
    /\ pc = "done" /\ result[1] = "Ok"
    /\ is_object(tree) /\ len(tree[2]) = 1 /\ is_array(tree[2][1][2])
    /\ WsCount(text) >= 6

\* C26 (SpecString): to_json_string of String(s) is s between two double
\* quotes, no character escaped, and parsing that text gives String(s) back,
\* whatever s holds.
C26_StringsVerbatim ==
    /\ (pc \in {"serialized", "reparsed"} /\ is_string(tree)) =>
           output = <<"\"">> \o tree[2] \o <<"\"">>
    /\ (pc = "reparsed" /\ is_string(tree)) => result = Ok(tree)

\* A string that holds a quote, a comma and a bracket came back.
C26_Witness ==
    /\ pc = "reparsed" /\ is_string(tree) /\ result = Ok(tree)
    /\ \E i, j, k \in 1..Len(tree[2]) :
          tree[2][i] = "\"" /\ tree[2][j] = "," /\ tree[2][k] = "["

CommaCount(s) == Cardinality({i \in 1..Len(s) : s[i] = COMMA})

\* The only element of the array text t, or the value of the only member of
\* the object text t, as it is written.
WrittenValue(t) ==
    IF IsArrayText(t) THEN InteriorOf(t) ELSE ValuePart(InteriorOf(t))

\* t is an array or object text that holds one quoted string, with a comma and
\* no further quote, bracket or brace between its quotes.
QuotedComma(t) ==
    /\ IsArrayText(t) \/ (IsObjectText(t) /\ FirstColon(InteriorOf(t)) > 0)
    /\ IsQuoted(WrittenValue(t))
    /\ CommaCount(WrittenValue(t)) > 0
    /\ CommaCount(WrittenValue(t)) = CommaCount(InteriorOf(t))
    /\ \A i \in 2..(Len(WrittenValue(t)) - 1) :
          WrittenValue(t)[i] \notin
              {DOUBLE_QUOTE, LEFT_BRACE, RIGHT_BRACE, LEFT_BRACKET, RIGHT_BRACKET}

\* C27 (SpecQuoted): a comma between the quotes of a string element or member
\* value splits the array or object there: parse yields no tree, and for an
\* array none of whose pieces is a lone quote, such as ["a,b"], it fails with
\* CouldntParseNode of the whole text.
C27_QuotedCommaSplits ==
    (pc = "done" /\ QuotedComma(text)) =>
        /\ Len(pieces) = CommaCount(WrittenValue(text)) + 1
        /\ result[1] # "Ok"
        /\ (IsArrayText(text) /\ \A i \in 1..Len(pieces) : pieces[i] # <<"\"">>) =>
              result = Err(CouldntParseNode(text))

\* The text ["a,b"] was parsed.
C27_Witness ==
    /\ pc = "done"
    /\ text = <<"[", "\"", "a", ",", "b", "\"", "]">>
    /\ pieces = << <<"\"", "a">>, <<"b", "\"">> >>
    /\ result = Err(CouldntParseNode(text))

C29_NextNeverFails == status # "panic"

RECURSIVE DistinctNames(_)
RECURSIVE DistinctNamesInSeq(_)
DistinctNamesInSeq(ns) ==
    ns = <<>> \/ (DistinctNames(Head(ns)) /\ DistinctNamesInSeq(Tail(ns)))

\* Every object of the tree has pairwise distinct property names.
DistinctNames(node) ==
    IF is_array(node) THEN DistinctNamesInSeq(node[2])
    ELSE IF is_object(node)
    THEN /\ \A i, j \in 1..Len(node[2]) : node[2][i][1] = node[2][j][1] => i = j
         /\ DistinctNamesInSeq(nodes(node[2]))
    ELSE TRUE

\* C30 (SpecMember): every object of a tree returned by parse has pairwise
\* distinct property names, also when the text repeats a member name (stated
\* for the object texts whose members all have a quoted name directly in
\* front of the colon).
C30_DistinctNames ==
    (pc = "done" /\ QuotedMembers(text) /\ result[1] = "Ok") =>
        DistinctNames(result[2])

====
